---- MODULE Spec2Model ----
(***************************************************************************)
(* Model of scrape_news.py (TechNewsScraper): the three-tier adaptive      *)
(* extraction cascade, the per-element field extractors, the URL           *)
(* classifiers and the per-site loop of scrape_all_sites.                  *)
(*                                                                         *)
(* Python strings are sequences of one-character strings, so that          *)
(* substring tests, prefixes, slicing and concatenation are computed and   *)
(* not assumed.  An optional value (None or a value) is a sequence of      *)
(* length 0 or 1.                                                          *)
(***************************************************************************)
EXTENDS Integers, Sequences, FiniteSets, TLC

(***************************************************************************)
(* Strings                                                                 *)
(***************************************************************************)

\* str.lower() on one character (ASCII letters)
LowerChar(c) ==
    LET upper == <<"A","B","C","D","E","F","G","H","I","J","K","L","M",
                   "N","O","P","Q","R","S","T","U","V","W","X","Y","Z">>
        lower == <<"a","b","c","d","e","f","g","h","i","j","k","l","m",
                   "n","o","p","q","r","s","t","u","v","w","x","y","z">>
    IN  IF \E k \in 1..26 : upper[k] = c
        THEN lower[CHOOSE k \in 1..26 : upper[k] = c]
        ELSE c

Lower(s) == [i \in 1..Len(s) |-> LowerChar(s[i])]

Digits == {"0", "1", "2", "3", "4", "5", "6", "7", "8", "9"}

\* s[i:i+len(p)] == p  (i is 1-based)
MatchAt(s, p, i) ==
    /\ i >= 1
    /\ i + Len(p) - 1 <= Len(s)
    /\ \A k \in 1..Len(p) : s[i + k - 1] = p[k]

\* p in s
Contains(s, p) == \E i \in 1..(Len(s) - Len(p) + 1) : MatchAt(s, p, i)

\* s.startswith(p)
StartsWith(s, p) == MatchAt(s, p, 1)

\* s.endswith(p)
EndsWith(s, p) == Len(p) <= Len(s) /\ MatchAt(s, p, Len(s) - Len(p) + 1)

\* s[:n] for n >= 0
Take(s, n) == SubSeq(s, 1, IF n < Len(s) THEN n ELSE Len(s))

\* s[n:] for n >= 0 (n characters dropped)
Drop(s, n) == SubSeq(s, n + 1, Len(s))

\* index of the first occurrence of p in s at or after position from, 0 if none
Find(s, p, from) ==
    LET hits == {i \in from..(Len(s) - Len(p) + 1) : MatchAt(s, p, i)}
    IN  IF hits = {} THEN 0 ELSE CHOOSE i \in hits : \A j \in hits : i <= j

\* index of the last occurrence of p in s, 0 if none
RFind(s, p) ==
    LET hits == {i \in 1..(Len(s) - Len(p) + 1) : MatchAt(s, p, i)}
    IN  IF hits = {} THEN 0 ELSE CHOOSE i \in hits : \A j \in hits : i >= j

Whitespace == {" ", "\n", "\t"}

\* str.strip()
Strip(s) ==
    LET keep == {i \in 1..Len(s) : s[i] \notin Whitespace}
    IN  IF keep = {} THEN <<>>
        ELSE SubSeq(s, CHOOSE i \in keep : \A j \in keep : i <= j,
                       CHOOSE i \in keep : \A j \in keep : i >= j)

\* s.replace(old, "") : every non-overlapping occurrence removed, left to right
RECURSIVE RemoveAll(_, _)
RemoveAll(s, old) ==
    LET i == Find(s, old, 1)
    IN  IF i = 0 THEN s
        ELSE Take(s, i - 1) \o RemoveAll(Drop(s, i - 1 + Len(old)), old)

(***************************************************************************)
(* URL Classifier                                                          *)
(***************************************************************************)

\* the unanchored entries of skip_patterns (re.search, so substring tests)
skip_substrings ==
    { <<"#">>,
      <<"j","a","v","a","s","c","r","i","p","t",":">>,
      <<"m","a","i","l","t","o",":">>,
      <<"/","t","a","g","/">>,
      <<"/","c","a","t","e","g","o","r","y","/">>,
      <<"/","a","u","t","h","o","r","/">>,
      <<"/","s","e","a","r","c","h">>,
      <<"/","l","o","g","i","n">>,
      <<"/","r","e","g","i","s","t","e","r">> }

\* the entries of skip_patterns anchored with $ : \.pdf$ \.jpg$ \.png$ \.gif$
skip_suffixes ==
    { <<".","p","d","f">>, <<".","j","p","g">>,
      <<".","p","n","g">>, <<".","g","i","f">> }

\* re.search(p + "$", s): $ matches at the end and before a final newline
SearchAtEnd(s, p) == EndsWith(s, p) \/ EndsWith(s, p \o <<"\n">>)

\* the patterns matched without re.IGNORECASE
_is_valid_article_url_Mut(url) ==
    IF url = <<>> THEN FALSE
    ELSE ~ ( \/ \E p \in skip_substrings : Contains(url, p)
             \/ \E p \in skip_suffixes : SearchAtEnd(url, p) )

\* def _is_valid_article_url(self, url); re.IGNORECASE is matching on Lower
_is_valid_article_url(url) ==
    IF url = <<>> THEN FALSE
    ELSE ~ ( \/ \E p \in skip_substrings : Contains(Lower(url), p)
             \/ \E p \in skip_suffixes : SearchAtEnd(Lower(url), p) )

\* the literal entries of article_patterns; \.html carries no anchor
article_substrings ==
    { <<"/","a","r","t","i","c","l","e","/">>,
      <<"/","p","o","s","t","/">>,
      <<"/","s","t","o","r","y","/">>,
      <<"/","n","e","w","s","/">>,
      <<"/","b","l","o","g","/">>,
      <<".","h","t","m","l">> }

\* re.search(r'/\d{4}/', s)
HasYearSegment(s) ==
    \E i \in 1..(Len(s) - 5) :
        /\ s[i] = "/"
        /\ \A k \in 1..4 : s[i + k] \in Digits
        /\ s[i + 5] = "/"

\* re.search(r'-\d+$', s)
EndsDashDigits(s) ==
    \E t \in {s, IF Len(s) > 0 /\ s[Len(s)] = "\n" THEN Take(s, Len(s) - 1) ELSE s} :
        \E i \in 1..(Len(t) - 1) :
            /\ t[i] = "-"
            /\ \A k \in (i + 1)..Len(t) : t[k] \in Digits

\* def _looks_like_article_url(self, url)
_looks_like_article_url(url) ==
    IF url = <<>> THEN FALSE
    ELSE \/ HasYearSegment(Lower(url))
         \/ \E p \in article_substrings : Contains(Lower(url), p)
         \/ EndsDashDigits(Lower(url))

(***************************************************************************)
(* urllib.parse : urlparse(...).netloc and urljoin, as the code uses them  *)
(***************************************************************************)

SchemeChars ==
    Digits \cup {"+", "-", "."} \cup
    {"a","b","c","d","e","f","g","h","i","j","k","l","m","n","o","p","q","r",
     "s","t","u","v","w","x","y","z"}

\* schemes in urllib.parse.uses_relative that the inputs can name
uses_relative == { <<"h","t","t","p">>, <<"h","t","t","p","s">>, <<"f","t","p">>, <<>> }

\* urlsplit(url).scheme : the text before the first ':' when it is a scheme name
UrlScheme(url) ==
    LET i == Find(url, <<":">>, 1)
    IN  IF /\ i > 1
           /\ LowerChar(url[1]) \in SchemeChars \ (Digits \cup {"+", "-", "."})
           /\ \A k \in 1..(i - 1) : LowerChar(url[k]) \in SchemeChars
        THEN Lower(Take(url, i - 1))
        ELSE <<>>

\* url without its scheme and the colon
UrlRest(url) == IF UrlScheme(url) = <<>> THEN url ELSE Drop(url, Len(UrlScheme(url)) + 1)

\* position of the first of '/', '?', '#' in s at or after from; Len(s)+1 if none
NetlocEnd(s, from) ==
    LET hits == {i \in from..Len(s) : s[i] \in {"/", "?", "#"}}
    IN  IF hits = {} THEN Len(s) + 1 ELSE CHOOSE i \in hits : \A j \in hits : i <= j

\* urlparse(url).netloc
UrlNetloc(url) ==
    LET r == UrlRest(url)
    IN  IF StartsWith(r, <<"/","/">>) THEN SubSeq(r, 3, NetlocEnd(r, 3) - 1) ELSE <<>>

\* urlparse(url).path for a url without query and fragment
UrlPath(url) ==
    LET r == UrlRest(url)
    IN  IF StartsWith(r, <<"/","/">>) THEN Drop(r, NetlocEnd(r, 3) - 1) ELSE r

\* the directory of a path: everything up to and including the last '/'
PathDir(path) == IF RFind(path, <<"/">>) = 0 THEN <<"/">> ELSE Take(path, RFind(path, <<"/">>))

\* urljoin(base, url) for a base without query and fragment and an url whose
\* path has no '.' or '..' segment
urljoin(base, url) ==
    LET bscheme == UrlScheme(base)
        scheme  == IF UrlScheme(url) = <<>> THEN bscheme ELSE UrlScheme(url)
        rest    == UrlRest(url)
        origin  == bscheme \o <<":","/","/">> \o UrlNetloc(base)
    IN  IF url = <<>> THEN base
        ELSE IF scheme # bscheme \/ scheme \notin uses_relative THEN url
        ELSE IF StartsWith(rest, <<"/","/">>) THEN scheme \o <<":">> \o rest
        ELSE IF rest = <<>> THEN base
        ELSE IF rest[1] = "/" THEN origin \o rest
        ELSE IF rest[1] \in {"?", "#"} THEN origin \o UrlPath(base) \o rest
        ELSE origin \o PathDir(UrlPath(base)) \o rest

\* full_url = urljoin(site_url, href) if not href.startswith('http') else href
full_url(site_url, href) ==
    IF ~StartsWith(href, <<"h","t","t","p">>) THEN urljoin(site_url, href) ELSE href

\* domain = urlparse(site_url).netloc.replace('www.', '')
domain_of(site_url) == RemoveAll(UrlNetloc(site_url), <<"w","w","w",".">>)

(***************************************************************************)
(* The parsed document (BeautifulSoup) and the CSS selectors the code uses *)
(*                                                                         *)
(* A page is the sequence of its nodes in document order.  A node has a    *)
(* tag ("#text" for a text node), the tokens of its class attribute, an    *)
(* optional href attribute, its text (text nodes only) and the index of    *)
(* its parent; 0 is the soup object itself.                                *)
(***************************************************************************)

RECURSIVE Ancestors(_, _)
Ancestors(page, i) ==
    IF i = 0 \/ page[i].parent = 0 THEN {}
    ELSE {page[i].parent} \cup Ancestors(page, page[i].parent)

\* the nodes below element e (e = 0: the whole document), in document order
Descendants(page, e) ==
    IF e = 0 THEN 1..Len(page) ELSE {i \in 1..Len(page) : e \in Ancestors(page, i)}

\* the set S of node indices as a sequence in document order
RECURSIVE InOrder(_)
InOrder(S) ==
    IF S = {} THEN <<>>
    ELSE LET m == CHOOSE i \in S : \A j \in S : i <= j
         IN  <<m>> \o InOrder(S \ {m})

\* the value of the class attribute: its tokens separated by one space
RECURSIVE ClassAttr(_)
ClassAttr(tokens) ==
    IF tokens = <<>> THEN <<>>
    ELSE IF Len(tokens) = 1 THEN tokens[1]
    ELSE tokens[1] \o <<" ">> \o ClassAttr(Tail(tokens))

\* one compound selector: tag name, .class, [class*=".."], [href], [href*=".."]
AnyTag == "*"
Sel(tag, cls, clsSub, hasHref, hrefSub) ==
    [tag |-> tag, cls |-> cls, clsSub |-> clsSub, hasHref |-> hasHref, hrefSub |-> hrefSub]
ByTag(t)         == Sel(t, <<>>, <<>>, FALSE, <<>>)
ByClass(c)       == Sel(AnyTag, <<c>>, <<>>, FALSE, <<>>)
ByClassSub(c)    == Sel(AnyTag, <<>>, <<c>>, FALSE, <<>>)
ByTagHref(t)     == Sel(t, <<>>, <<>>, TRUE, <<>>)
ByTagHrefSub(t, h) == Sel(t, <<>>, <<>>, TRUE, <<h>>)

\* node n matches the compound selector c
MatchesCompound(n, c) ==
    /\ n.tag # "#text"
    /\ c.tag = AnyTag \/ n.tag = c.tag
    /\ c.cls = <<>> \/ \E k \in 1..Len(n.class) : n.class[k] = c.cls[1]
    /\ c.clsSub = <<>> \/ (n.class # <<>> /\ Contains(ClassAttr(n.class), c.clsSub[1]))
    /\ ~c.hasHref \/ n.href # <<>>
    /\ c.hrefSub = <<>> \/ (n.href # <<>> /\ Contains(n.href[1], c.hrefSub[1]))

\* node i matches the first k compounds of selector sel (descendant combinator);
\* as in soupsieve the ancestors are looked for in the whole document
RECURSIVE MatchesSelector(_, _, _, _)
MatchesSelector(page, i, sel, k) ==
    /\ MatchesCompound(page[i], sel[k])
    /\ k = 1 \/ \E a \in Ancestors(page, i) : MatchesSelector(page, a, sel, k - 1)

\* element.select(selector): the matching descendants in document order
select(page, e, sel) ==
    InOrder({i \in Descendants(page, e) : MatchesSelector(page, i, sel, Len(sel))})

\* element.select_one(selector): the first match, None when there is none
select_one(page, e, sel) ==
    LET m == select(page, e, sel) IN IF m = <<>> THEN <<>> ELSE <<m[1]>>

\* element.find_all(tags, limit=limit): descendants with one of the tags
find_all(page, e, tags, limit) ==
    Take(InOrder({i \in Descendants(page, e) : page[i].tag \in tags}), limit)

\* soup.find_all('a', href=True)
find_all_links(page) ==
    InOrder({i \in 1..Len(page) : page[i].tag = "a" /\ page[i].href # <<>>})

\* element.get_text(strip=True): the text nodes below the element, each
\* stripped, the empty ones dropped, concatenated
RECURSIVE JoinStripped(_, _)
JoinStripped(page, idxs) ==
    IF idxs = <<>> THEN <<>>
    ELSE Strip(page[idxs[1]].text) \o JoinStripped(page, Tail(idxs))

get_text(page, e) ==
    JoinStripped(page, InOrder({i \in Descendants(page, e) : page[i].tag = "#text"}))

\* element.get('href', '')
get_href(page, e) == IF page[e].href = <<>> THEN <<>> ELSE page[e].href[1]

(***************************************************************************)
(* Field Extractor                                                         *)
(***************************************************************************)

TitleLimit == 100
SummaryLimit == 200
MinSummaryLen == 20
MinMatches == 3
GoodEnough == 3
MinLinkText == 10

Ellipsis == <<".",".",".">>

DigitChar(d) == <<"0","1","2","3","4","5","6","7","8","9">>[d + 1]
TwoDigits(n) == <<DigitChar((n \div 10) % 10), DigitChar(n % 10)>>

\* datetime.now().strftime("%Y-%m-%d %H:%M:%S") when now seconds of the day
\* of the run have passed; the day itself does not change within a run
strftime(now) ==
    <<"2","0","2","5","-","0","1","-","0","1"," ">>
        \o TwoDigits((now \div 3600) % 24) \o <<":">>
        \o TwoDigits((now \div 60) % 60) \o <<":">>
        \o TwoDigits(now % 60)

\* the dataclass with summary and published_date in each other's place
Article_Mut(title, url, summary, published_date, source, author) ==
    [title |-> title, url |-> url, summary |-> published_date,
     published_date |-> summary, source |-> source, author |-> author]

\* the dataclass Article; author is None (<<>>) or a string (<<s>>)
Article(title, url, summary, published_date, source, author) ==
    [title |-> title, url |-> url, summary |-> summary,
     published_date |-> published_date, source |-> source, author |-> author]

\* summary[:200] + "..." if len(summary) > 200 else summary
clip_summary(summary) ==
    IF Len(summary) > SummaryLimit THEN Take(summary, SummaryLimit) \o Ellipsis ELSE summary

title_selectors ==
    << <<ByTag("h1"), ByTag("a")>>, <<ByTag("h2"), ByTag("a")>>,
       <<ByTag("h3"), ByTag("a")>>, <<ByTag("h4"), ByTag("a")>>,
       <<ByClass(<<"t","i","t","l","e">>), ByTag("a")>>,
       <<ByClass(<<"h","e","a","d","l","i","n","e">>), ByTag("a")>>,
       <<ByClass(<<"e","n","t","r","y","-","t","i","t","l","e">>), ByTag("a")>>,
       <<ByTagHref("a")>> >>

summary_selectors ==
    << <<ByClass(<<"e","x","c","e","r","p","t">>)>>,
       <<ByClass(<<"s","u","m","m","a","r","y">>)>>,
       <<ByClass(<<"d","e","s","c","r","i","p","t","i","o","n">>)>>,
       <<ByClass(<<"i","n","t","r","o">>)>>,
       <<ByTag("p")>>,
       <<ByClass(<<"c","o","n","t","e","n","t">>)>> >>

author_selectors ==
    << <<ByClass(<<"a","u","t","h","o","r">>)>>,
       <<ByClass(<<"b","y","l","i","n","e">>)>>,
       <<ByClass(<<"w","r","i","t","e","r">>)>>,
       <<ByClassSub(<<"a","u","t","h","o","r">>)>> >>

\* for selector in title_selectors: link_elem = select_one; if link_elem: break
\* (a Tag is true whatever its content, so the first selector with a match ends
\* the loop)
RECURSIVE find_link_elem(_, _, _)
find_link_elem(page, element, k) ==
    IF k > Len(title_selectors) THEN <<>>
    ELSE LET link_elem == select_one(page, element, title_selectors[k])
         IN  IF link_elem # <<>> THEN link_elem
             ELSE find_link_elem(page, element, k + 1)

\* the summary loop: summary is overwritten by every candidate found and the
\* loop ends at the first one longer than 20 characters
RECURSIVE find_summary(_, _, _, _)
find_summary(page, element, k, summary) ==
    IF k > Len(summary_selectors) THEN summary
    ELSE LET summary_elem == select_one(page, element, summary_selectors[k])
         IN  IF summary_elem = <<>> THEN find_summary(page, element, k + 1, summary)
             ELSE IF Len(get_text(page, summary_elem[1])) > MinSummaryLen
                  THEN get_text(page, summary_elem[1])
                  ELSE find_summary(page, element, k + 1, get_text(page, summary_elem[1]))

\* the author loop: the first selector with a match gives the author's text
RECURSIVE find_author(_, _, _)
find_author(page, element, k) ==
    IF k > Len(author_selectors) THEN <<>>
    ELSE LET author_elem == select_one(page, element, author_selectors[k])
         IN  IF author_elem # <<>> THEN <<get_text(page, author_elem[1])>>
             ELSE find_author(page, element, k + 1)

\* the container path checking the href only, not the title
_extract_article_from_element_Mut(page, element, site_url, domain, now) ==
    LET link_elem == find_link_elem(page, element, 1)
    IN  IF link_elem = <<>> THEN <<>>
        ELSE LET title == get_text(page, link_elem[1])
                 href  == get_href(page, link_elem[1])
             IN  IF href = <<>> THEN <<>>
                 ELSE << Article(title,
                                 full_url(site_url, href),
                                 clip_summary(find_summary(page, element, 1, <<>>)),
                                 strftime(now),
                                 domain,
                                 find_author(page, element, 1)) >>

\* def _extract_article_from_element(self, element, site_url, domain);
\* None is <<>>, an Article a is <<a>>
_extract_article_from_element(page, element, site_url, domain, now) ==
    LET link_elem == find_link_elem(page, element, 1)
    IN  IF link_elem = <<>> THEN <<>>
        ELSE LET title == get_text(page, link_elem[1])
                 href  == get_href(page, link_elem[1])
             IN  IF title = <<>> \/ href = <<>> THEN <<>>
                 ELSE << Article(title,
                                 full_url(site_url, href),
                                 clip_summary(find_summary(page, element, 1, <<>>)),
                                 strftime(now),
                                 domain,
                                 find_author(page, element, 1)) >>

\* for elem in parent.find_all(['p', 'div', 'span'], limit=3): the first text
\* that is longer than 20 characters and differs from the title
RECURSIVE nearby_summary(_, _, _, _)
nearby_summary(page, elems, k, title) ==
    IF k > Len(elems) THEN <<>>
    ELSE LET text == get_text(page, elems[k])
         IN  IF text # <<>> /\ Len(text) > MinSummaryLen /\ text # title THEN text
             ELSE nearby_summary(page, elems, k + 1, title)

\* def _create_article_from_link(self, link, site_url, domain)
_create_article_from_link(page, link, site_url, domain, now) ==
    LET title == get_text(page, link)
        href  == get_href(page, link)
        elems == find_all(page, page[link].parent, {"p", "div", "span"}, 3)
    IN  IF title = <<>> \/ href = <<>> THEN <<>>
        ELSE << Article(title,
                        full_url(site_url, href),
                        clip_summary(nearby_summary(page, elems, 1, title)),
                        strftime(now),
                        domain,
                        <<>>) >>

(***************************************************************************)
(* Strategy Cascade                                                        *)
(***************************************************************************)

article_selectors ==
    << <<ByTag("article")>>,
       <<ByClass(<<"p","o","s","t">>)>>,
       <<ByClass(<<"e","n","t","r","y">>)>>,
       <<ByClass(<<"s","t","o","r","y">>)>>,
       <<ByClassSub(<<"a","r","t","i","c","l","e">>)>>,
       <<ByClassSub(<<"p","o","s","t">>)>>,
       <<ByClassSub(<<"s","t","o","r","y">>)>>,
       <<ByClass(<<"c","o","n","t","e","n","t","-","i","t","e","m">>)>>,
       <<ByClass(<<"f","e","e","d","-","i","t","e","m">>)>>,
       <<ByClass(<<"n","e","w","s","-","i","t","e","m">>)>> >>

headline_selectors ==
    << <<ByTag("h1"), ByTagHref("a")>>,
       <<ByTag("h2"), ByTagHref("a")>>,
       <<ByTag("h3"), ByTagHref("a")>>,
       <<ByClass(<<"h","e","a","d","l","i","n","e">>), ByTag("a")>>,
       <<ByClass(<<"t","i","t","l","e">>), ByTag("a")>>,
       <<ByClass(<<"e","n","t","r","y","-","t","i","t","l","e">>), ByTag("a")>>,
       <<ByClassSub(<<"h","e","a","d","l","i","n","e">>), ByTag("a")>>,
       <<ByClassSub(<<"t","i","t","l","e">>), ByTag("a")>>,
       <<ByTagHrefSub("a", <<"/","2","0","2","4","/">>)>>,
       <<ByTagHrefSub("a", <<"/","2","0","2","5","/">>)>> >>

nav_words ==
    { <<"h","o","m","e">>, <<"a","b","o","u","t">>, <<"c","o","n","t","a","c","t">>,
      <<"s","u","b","s","c","r","i","b","e">>, <<"l","o","g","i","n">>,
      <<"m","e","n","u">> }

\* for element in elements[:max_articles]: the records of the elements from
\* the k-th on, in order, None results left out
RECURSIVE extract_elements(_, _, _, _, _, _)
extract_elements(page, elements, k, site_url, domain, now) ==
    IF k > Len(elements) THEN <<>>
    ELSE _extract_article_from_element(page, elements[k], site_url, domain, now)
             \o extract_elements(page, elements, k + 1, site_url, domain, now)

\* the selector loop without the test len(elements) >= 3
RECURSIVE article_selector_loop_Mut(_, _, _, _, _, _, _)
article_selector_loop_Mut(page, k, articles, site_url, domain, max_articles, now) ==
    IF k > Len(article_selectors) THEN articles
    ELSE LET elements == select(page, 0, article_selectors[k])
             found == articles \o extract_elements(page, Take(elements, max_articles),
                                                   1, site_url, domain, now)
         IN  IF found # <<>> THEN found
             ELSE article_selector_loop_Mut(page, k + 1, found, site_url, domain,
                                            max_articles, now)

\* the selector loop of _try_article_selectors from the k-th selector on
RECURSIVE article_selector_loop(_, _, _, _, _, _, _)
article_selector_loop(page, k, articles, site_url, domain, max_articles, now) ==
    IF k > Len(article_selectors) THEN articles
    ELSE LET elements == select(page, 0, article_selectors[k])
             found == IF Len(elements) >= MinMatches
                      THEN articles \o extract_elements(page, Take(elements, max_articles),
                                                        1, site_url, domain, now)
                      ELSE articles
         IN  IF Len(elements) >= MinMatches /\ found # <<>> THEN found
             ELSE article_selector_loop(page, k + 1, found, site_url, domain,
                                        max_articles, now)

\* def _try_article_selectors(self, soup, site_url, domain, max_articles)
_try_article_selectors(page, site_url, domain, max_articles, now) ==
    article_selector_loop(page, 1, <<>>, site_url, domain, max_articles, now)

\* for link in links[:max_articles]: the records whose url is valid
RECURSIVE extract_links(_, _, _, _, _, _)
extract_links(page, links, k, site_url, domain, now) ==
    IF k > Len(links) THEN <<>>
    ELSE LET article == _create_article_from_link(page, links[k], site_url, domain, now)
         IN  (IF article # <<>> /\ _is_valid_article_url(article[1].url)
              THEN article ELSE <<>>)
                 \o extract_links(page, links, k + 1, site_url, domain, now)

\* the selector loop of _try_headline_selectors from the k-th selector on;
\* articles is the one list all selectors append to
RECURSIVE headline_selector_loop(_, _, _, _, _, _, _)
headline_selector_loop(page, k, articles, site_url, domain, max_articles, now) ==
    IF k > Len(headline_selectors) THEN articles
    ELSE LET links == select(page, 0, headline_selectors[k])
             found == IF Len(links) >= MinMatches
                      THEN articles \o extract_links(page, Take(links, max_articles),
                                                     1, site_url, domain, now)
                      ELSE articles
         IN  IF Len(links) >= MinMatches /\ Len(found) >= GoodEnough THEN found
             ELSE headline_selector_loop(page, k + 1, found, site_url, domain,
                                         max_articles, now)

\* def _try_headline_selectors(self, soup, site_url, domain, max_articles)
_try_headline_selectors(page, site_url, domain, max_articles, now) ==
    headline_selector_loop(page, 1, <<>>, site_url, domain, max_articles, now)

\* title=text[:100] + "..." if len(text) > 100 else text
clip_title(text) ==
    IF Len(text) > TitleLimit THEN Take(text, TitleLimit) \o Ellipsis ELSE text

\* the loop of _try_generic_link_patterns over all_links from the k-th link on
RECURSIVE generic_link_loop(_, _, _, _, _, _, _, _)
generic_link_loop(page, all_links, k, articles, site_url, domain, max_articles, now) ==
    IF k > Len(all_links) \/ Len(articles) >= max_articles THEN articles
    ELSE LET href == get_href(page, all_links[k])
             text == get_text(page, all_links[k])
             keep == /\ ~(text = <<>> \/ Len(text) < MinLinkText)
                     /\ ~(\E skip \in nav_words : Contains(Lower(text), skip))
                     /\ _looks_like_article_url(href)
                     /\ _is_valid_article_url(href)
         IN  generic_link_loop(page, all_links, k + 1,
                 IF keep
                 THEN Append(articles, Article(clip_title(text), full_url(site_url, href),
                                               <<>>, strftime(now), domain, <<>>))
                 ELSE articles,
                 site_url, domain, max_articles, now)

\* def _try_generic_link_patterns(self, soup, site_url, domain, max_articles)
_try_generic_link_patterns(page, site_url, domain, max_articles, now) ==
    generic_link_loop(page, find_all_links(page), 1, <<>>, site_url, domain,
                      max_articles, now)

(***************************************************************************)
(* Documents the parser can hand to the cascade                            *)
(***************************************************************************)

\* a text node and an element, as document fragments: sequences of nodes
\* whose parent index is relative to the fragment, 0 being the place where
\* the fragment is attached
TextNode(text) ==
    << [tag |-> "#text", class |-> <<>>, href |-> <<>>, text |-> text, parent |-> 0] >>

RECURSIVE Siblings(_)
Siblings(frags) ==
    IF frags = <<>> THEN <<>>
    ELSE LET f == frags[1]
             g == Siblings(Tail(frags))
         IN  f \o [i \in 1..Len(g) |->
                      [g[i] EXCEPT !.parent = IF @ = 0 THEN 0 ELSE @ + Len(f)]]

Element(tag, class, href, children) ==
    LET below == Siblings(children)
    IN  << [tag |-> tag, class |-> class, href |-> href, text |-> <<>>, parent |-> 0] >>
            \o [i \in 1..Len(below) |-> [below[i] EXCEPT !.parent = @ + 1]]

\* n copies of the character c
Rep(c, n) == [i \in 1..n |-> c]

\* <a href=href>text</a>, <a>text</a> without href, and <tag><a ..></a></tag>
Link(href, text) == Element("a", <<>>, <<href>>, <<TextNode(text)>>)
Anchor(text) == Element("a", <<>>, <<>>, <<TextNode(text)>>)
Para(text) == Element("p", <<>>, <<>>, <<TextNode(text)>>)
Classed(tag, cls, children) == Element(tag, <<cls>>, <<>>, children)
Plain(tag, children) == Element(tag, <<>>, <<>>, children)

LongLen == 150
LongSummaryLen == 250
TextLen == 12
SummaryLen == 30

\* four <article> elements, each an <h2> link and a paragraph of 30 characters
PageArticles ==
    Siblings(<<
        Plain("article", << Plain("h2", <<Link(<<"/","2","0","2","5","/","1">>, <<"T","1">>)>>), Para(Rep("s", SummaryLen)) >>),
        Plain("article", << Plain("h2", <<Link(<<"/","2","0","2","5","/","2">>, <<"T","2">>)>>), Para(Rep("s", SummaryLen)) >>),
        Plain("article", << Plain("h2", <<Link(<<"/","2","0","2","5","/","3">>, <<"T","3">>)>>), Para(Rep("s", SummaryLen)) >>),
        Plain("article", << Plain("h2", <<Link(<<"/","2","0","2","5","/","4">>, <<"T","4">>)>>), Para(Rep("s", SummaryLen)) >>) >>)

\* two <article> elements (too few) and three .post cards: one whose first
\* heading link has no text, one with a tag-page link, a short paragraph and an
\* empty .author, one with a long title, a relative href that starts with http
\* and a long excerpt
PageCards ==
    Siblings(<<
        Plain("article", << Plain("h2", <<Link(<<"/","2","0","2","5","/","1">>, Rep("a", TextLen))>>) >>),
        Plain("article", << Plain("h2", <<Link(<<"/","2","0","2","5","/","2">>, Rep("b", TextLen))>>) >>),
        Classed("div", <<"p","o","s","t">>, <<
            Plain("h1", <<Link(<<"/","x">>, <<" ">>)>>),
            Plain("h2", <<Link(<<"/","2","0","2","5","/","a","-","1">>, <<"G","o","o","d"," ","t","i","t","l","e">>)>>),
            Para(Rep("s", SummaryLen)) >>),
        Classed("div", <<"p","o","s","t">>, <<
            Plain("h2", <<Link(<<"/","t","a","g","/","a","i">>, Rep("c", TextLen))>>),
            Para(<<"s","h","o","r","t">>),
            Classed("span", <<"a","u","t","h","o","r">>, <<>>),
            Classed("span", <<"b","y","l","i","n","e">>, <<TextNode(<<"B","o","b">>)>>) >>),
        Classed("div", <<"p","o","s","t">>, <<
            Plain("h3", <<Link(<<"h","t","t","p","s","-","g","u","i","d","e",".","h","t","m","l">>, Rep("d", LongLen))>>),
            Classed("div", <<"e","x","c","e","r","p","t">>, <<TextNode(Rep("e", LongSummaryLen))>>),
            Para(Rep("s", SummaryLen)),
            Classed("span", <<"a","u","t","h","o","r">>, <<TextNode(<<"A","n","n">>)>>) >>) >>)

\* no container; three <h2> links with valid urls, one with a long title, each
\* followed inside its heading by a <span>
PageHeadlines ==
    Siblings(<<
        Plain("h2", << Link(<<"/","2","0","2","5","/","1">>, Rep("a", TextLen)), Plain("span", <<TextNode(Rep("s", SummaryLen))>>) >>),
        Plain("h2", << Link(<<"/","2","0","2","5","/","2">>, Rep("b", LongLen)), Plain("span", <<TextNode(<<"s","h","o","r","t">>)>>) >>),
        Plain("h2", << Link(<<"/","/","c","d","n",".","s","i","t","e",".","c","o","m","/","p","o","s","t","/","9">>, Rep("c", TextLen)) >>) >>)

\* three <h2> links of which one is a category page, then three .title links
\* of which the first has no href
PageHeadlinesMixed ==
    Siblings(<<
        Plain("h2", <<Link(<<"/","2","0","2","5","/","1">>, Rep("a", TextLen))>>),
        Plain("h2", <<Link(<<"/","c","a","t","e","g","o","r","y","/","x">>, Rep("b", TextLen))>>),
        Plain("h2", <<Link(<<"/","2","0","2","5","/","3">>, Rep("c", TextLen))>>),
        Classed("div", <<"t","i","t","l","e">>, <<Anchor(Rep("d", TextLen))>>),
        Classed("div", <<"t","i","t","l","e">>, <<Link(<<"H","T","T","P",":","/","/","X",".","c","o","m","/","a","-","7">>, Rep("e", TextLen))>>),
        Classed("div", <<"t","i","t","l","e">>, <<Link(<<"/","n","e","w","s","/","i","t","e","m","-","1">>, Rep("f", TextLen))>>) >>)

\* a list of plain links: navigation, short texts, non-article and rejected
\* urls, a long text, a relative href that starts with http
PageLinks ==
    Siblings(<<
        Plain("ul", <<
            Plain("li", <<Link(<<"/">>, <<"H","o","m","e">>)>>),
            Plain("li", <<Link(<<"/","n","e","w","s","/","s","u","b","s","c","r","i","b","e","-","1">>, <<"S","u","b","s","c","r","i","b","e"," ","t","o"," ","o","u","r"," ","n","e","w","s","l","e","t","t","e","r">>)>>),
            Plain("li", <<Link(<<"/","n","e","w","s","/","i","t","e","m","-","1">>, Rep("a", TextLen))>>),
            Plain("li", <<Link(<<"/","a","b","o","u","t">>, Rep("b", TextLen))>>),
            Plain("li", <<Link(<<"/","t","a","g","/","2","0","2","4","/","x",".","h","t","m","l">>, Rep("c", TextLen))>>),
            Plain("li", <<Link(<<"/","2","0","2","4","/","l","o","n","g">>, Rep("d", LongLen))>>),
            Plain("li", <<Anchor(Rep("e", TextLen))>>),
            Plain("li", <<Link(<<>>, Rep("f", TextLen))>>),
            Plain("li", <<Link(<<"h","t","t","p","-","a","r","c","h","i","v","e","/","s","t","o","r","y",".","h","t","m","l">>, Rep("g", TextLen))>>),
            Plain("li", <<Link(<<"/","s","t","o","r","y","/","b","-","2">>, Rep("h", TextLen))>>) >>) >>)

\* no link at all
PageEmpty == Plain("div", <<Para(<<"s","h","o","r","t">>)>>)

\* three <article> elements without any link, and three <h3> links of which
\* only one has an acceptable url
PageFewHeadlines ==
    Siblings(<<
        Plain("article", <<Para(Rep("s", SummaryLen))>>),
        Plain("article", <<Para(Rep("s", SummaryLen))>>),
        Plain("article", <<Para(Rep("s", SummaryLen))>>),
        Plain("h3", <<Link(<<"/","l","o","g","i","n">>, Rep("a", TextLen))>>),
        Plain("h3", <<Link(<<"/","s","t","o","r","y","/","b","-","2">>, Rep("b", TextLen))>>),
        Plain("h3", <<Link(<<"/","t","a","g","/","a","i">>, Rep("c", TextLen))>>) >>)

\* three <article> elements without any link, then four story-card containers
\* with a heading link each
PageFallbackCards ==
    Siblings(<<
        Plain("article", <<Para(Rep("s", SummaryLen))>>),
        Plain("article", <<Para(Rep("s", SummaryLen))>>),
        Plain("article", <<Para(Rep("s", SummaryLen))>>),
        Classed("div", <<"s","t","o","r","y","-","c","a","r","d">>, << Plain("h2", <<Link(<<"/","2","0","2","5","/","s","-","1">>, Rep("a", TextLen))>>), Para(Rep("s", SummaryLen)) >>),
        Classed("div", <<"s","t","o","r","y","-","c","a","r","d">>, << Plain("h2", <<Link(<<"/","2","0","2","5","/","s","-","2">>, Rep("b", TextLen))>>), Para(Rep("s", SummaryLen)) >>),
        Classed("div", <<"s","t","o","r","y","-","c","a","r","d">>, << Plain("h2", <<Link(<<"/","2","0","2","5","/","s","-","3">>, Rep("c", TextLen))>>), Para(Rep("s", SummaryLen)) >>),
        Classed("div", <<"s","t","o","r","y","-","c","a","r","d">>, << Plain("h2", <<Link(<<"/","2","0","2","5","/","s","-","4">>, Rep("d", TextLen))>>), Para(Rep("s", SummaryLen)) >>) >>)

Pages ==
    << PageArticles, PageCards, PageHeadlines, PageHeadlinesMixed, PageLinks,
       PageEmpty, PageFewHeadlines, PageFallbackCards >>

(***************************************************************************)
(* Extraction Session and the per-site loop                                *)
(***************************************************************************)

MaxArticles == 3
MaxRuns == 2
MaxOutages == 2

\* self.delay: every TechNewsScraper of the program is built with delay 2.0
Delay == 2

\* the sites of scrape_all_sites for site_type == "tech"
tech_sites ==
    << <<"h","t","t","p","s",":","/","/","t","e","c","h","c","r","u","n","c","h",".","c","o","m">>,
       <<"h","t","t","p","s",":","/","/","w","w","w",".","t","h","e","v","e","r","g","e",".","c","o","m">>,
       <<"h","t","t","p","s",":","/","/","w","w","w",".","w","i","r","e","d",".","c","o","m">>,
       <<"h","t","t","p","s",":","/","/","a","r","s","t","e","c","h","n","i","c","a",".","c","o","m">>,
       <<"h","t","t","p","s",":","/","/","w","w","w",".","z","d","n","e","t",".","c","o","m">>,
       <<"h","t","t","p","s",":","/","/","t","h","e","n","e","x","t","w","e","b",".","c","o","m">>,
       <<"h","t","t","p","s",":","/","/","g","i","z","m","o","d","o",".","c","o","m">>,
       <<"h","t","t","p","s",":","/","/","w","w","w",".","c","n","e","t",".","c","o","m">>,
       <<"h","t","t","p","s",":","/","/","w","w","w",".","t","e","c","h","r","a","d","a","r",".","c","o","m">>,
       <<"h","t","t","p","s",":","/","/","w","w","w",".","d","i","g","i","t","a","l","t","r","e","n","d","s",".","c","o","m">> >>

\* the sites of scrape_all_sites for site_type == "security"
security_sites ==
    << <<"h","t","t","p","s",":","/","/","t","h","e","h","a","c","k","e","r","n","e","w","s",".","c","o","m">>,
       <<"h","t","t","p","s",":","/","/","w","w","w",".","c","s","o","o","n","l","i","n","e",".","c","o","m">>,
       <<"h","t","t","p","s",":","/","/","w","w","w",".","d","a","r","k","r","e","a","d","i","n","g",".","c","o","m">>,
       <<"h","t","t","p","s",":","/","/","w","w","w",".","s","e","c","u","r","i","t","y","w","e","e","k",".","c","o","m">>,
       <<"h","t","t","p","s",":","/","/","w","w","w",".","i","n","f","o","s","e","c","u","r","i","t","y","-","m","a","g","a","z","i","n","e",".","c","o","m">>,
       <<"h","t","t","p","s",":","/","/","k","r","e","b","s","o","n","s","e","c","u","r","i","t","y",".","c","o","m">>,
       <<"h","t","t","p","s",":","/","/","t","h","r","e","a","t","p","o","s","t",".","c","o","m">>,
       <<"h","t","t","p","s",":","/","/","w","w","w",".","b","l","e","e","p","i","n","g","c","o","m","p","u","t","e","r",".","c","o","m">>,
       <<"h","t","t","p","s",":","/","/","g","r","a","h","a","m","c","l","u","l","e","y",".","c","o","m">>,
       <<"h","t","t","p","s",":","/","/","s","e","c","u","r","i","t","y","t","r","a","i","l","s",".","c","o","m","/","b","l","o","g">>,
       <<"h","t","t","p","s",":","/","/","n","a","k","e","d","s","e","c","u","r","i","t","y",".","s","o","p","h","o","s",".","c","o","m">>,
       <<"h","t","t","p","s",":","/","/","w","w","w",".","s","c","h","n","e","i","e","r",".","c","o","m">>,
       <<"h","t","t","p","s",":","/","/","w","w","w",".","t","r","i","p","w","i","r","e",".","c","o","m","/","s","t","a","t","e","-","o","f","-","s","e","c","u","r","i","t","y">>,
       <<"h","t","t","p","s",":","/","/","c","y","b","e","r","s","c","o","o","p",".","c","o","m">>,
       <<"h","t","t","p","s",":","/","/","w","w","w",".","h","e","l","p","n","e","t","s","e","c","u","r","i","t","y",".","c","o","m">> >>

\* page urls a caller hands to scrape_site_adaptive directly
TestUrls ==
    { <<"h","t","t","p","s",":","/","/","w","w","w",".","s","i","t","e",".","c","o","m">>,
      <<"h","t","t","p","s",":","/","/","n","e","w","s",".","w","w","w",".","s","i","t","e",".","c","o","m","/","b","l","o","g","/","i","n","d","e","x">> }

\* the document the k-th configured site serves when it answers
WebPage(k) == ((k - 1) % Len(Pages)) + 1

\* urls a caller hands to the two classifiers: head, middle and tail joined
ProbeHeads ==
    { <<>>, <<"/">>, <<"h","t","t","p","s",":","/","/","x",".","c","o","m","/">> }

ProbeMids ==
    { <<>>, <<"t","a","g","/","a","i">>, <<"T","A","G","/","a","i">>, <<"t","a","g","s">>,
    <<"c","a","t","e","g","o","r","y","/","x">>, <<"a","u","t","h","o","r","/","x">>,
    <<"s","e","a","r","c","h">>, <<"l","o","g","i","n">>, <<"r","e","g","i","s","t","e","r">>,
    <<"2","0","2","5","/","0","5","/","0","1","/","f","o","o">>, <<"1","2","3","/","x">>,
    <<"1","2","3","4","5","/","x">>, <<"a","r","t","i","c","l","e","/","1","2","3">>,
    <<"P","o","s","t","/","x">>, <<"s","t","o","r","y","/","x">>, <<"n","e","w","s","/","x">>,
    <<"b","l","o","g","/","x">>, <<"a","b","o","u","t">>, <<"a",".","p","d","f","/","x">>,
    <<"a",".","h","t","m","l","/","x">>, <<"a",".","h","t","m">>,
    <<"m","a","i","l","t","o",":","a">>, <<"J","a","v","a","S","c","r","i","p","t",":","x">>,
    <<"a","#","b">> }

ProbeTails ==
    { <<>>, <<".","p","d","f">>, <<".","P","D","F">>, <<".","j","p","g">>, <<".","p","n","g">>,
    <<".","g","i","f">>, <<".","h","t","m","l">>, <<"-","1","2">>, <<"-","1","a">>,
    <<"?","x","=","1">>, <<".","p","d","f","\n">>, <<"-","7","\n">> }

ProbeUrls == {h \o m \o t : h \in ProbeHeads, m \in ProbeMids, t \in ProbeTails}

VARIABLES
    pc,            \* where the program is
    caller,        \* "site": scrape_site_adaptive was called directly, "all": by scrape_all_sites
    net,           \* "up", or "down" when no request of the run succeeds
    clock,         \* seconds passed since the program started
    site_url,      \* scrape_site_adaptive: its arguments and locals
    max_articles,
    domain,
    served,        \* the page the site serves (index in Pages)
    soup,          \* the parsed page (index in Pages), 0 before parsing
    articles,
    called_at,     \* history: the clock when scrape_site_adaptive was entered
    tiers_run,     \* history: the tiers invoked by this call, in order
    error,         \* history: the exception the call caught, "" if none
    runs,          \* history: direct calls made so far
    prev,          \* history: soup, result and error of the previous direct call
    sites,         \* scrape_all_sites: its locals
    idx,
    results,
    attempted,     \* history: the urls handed to scrape_site_adaptive
    failed,        \* history: positions of the sites whose scrape caught an exception
    outages,       \* history: number of those
    asked,         \* the URL classifier called directly: "valid", "looks" or ""
    asked_url,     \* its argument
    verdict        \* its return value

vars == <<pc, caller, net, clock, site_url, max_articles, domain, served, soup,
          articles, called_at, tiers_run, error, runs, prev, sites, idx, results,
          attempted, failed, outages, asked, asked_url, verdict>>

site_vars == <<site_url, max_articles, domain, served, soup, articles, called_at,
               tiers_run, error>>
loop_vars == <<sites, idx, results, attempted, failed, outages>>
url_vars == <<asked, asked_url, verdict>>

Init ==
    /\ pc = "idle"
    /\ caller = "none"
    /\ net \in {"up", "down"}
    /\ clock = 0
    /\ site_url = <<>>
    /\ max_articles = 0
    /\ domain = <<>>
    /\ served = 0
    /\ soup = 0
    /\ articles = <<>>
    /\ called_at = 0
    /\ tiers_run = <<>>
    /\ error = ""
    /\ runs = 0
    /\ prev = <<>>
    /\ sites = <<>>
    /\ idx = 0
    /\ results = <<>>
    /\ attempted = <<>>
    /\ failed = {}
    /\ outages = 0
    /\ asked = ""
    /\ asked_url = <<>>
    /\ verdict = FALSE

\* scrape_site_adaptive, lines 47-48: articles = [] and the domain
Enter(url, max, page) ==
    /\ site_url' = url
    /\ max_articles' = max
    /\ domain' = domain_of(url)
    /\ served' = page
    /\ soup' = 0
    /\ articles' = <<>>
    /\ called_at' = clock
    /\ tiers_run' = <<>>
    /\ error' = ""
    /\ pc' = "fetch"

\* a caller (debug_single_site) calls scrape_site_adaptive(site_url, max_articles)
CallSite(url, max, page) ==
    /\ pc = "idle"
    /\ Enter(url, max, page)
    /\ caller' = "site"
    /\ runs' = 1
    /\ UNCHANGED <<url_vars, net, clock, prev, loop_vars>>

\* the caller calls it once more with the same arguments, the site unchanged
CallAgain ==
    /\ pc = "returned"
    /\ runs < MaxRuns
    /\ Enter(site_url, max_articles, served)
    /\ prev' = <<[soup |-> soup, articles |-> articles, error |-> error]>>
    /\ runs' = runs + 1
    /\ UNCHANGED <<url_vars, caller, net, clock, loop_vars>>

\* the except clause missing: the exception leaves scrape_site_adaptive
FetchFails_Mut(kind) ==
    /\ pc = "fetch"
    /\ net = "down" \/ caller = "site" \/ outages < MaxOutages
    /\ error' = kind
    /\ pc' = "raised"
    /\ failed' = IF caller = "all" THEN failed \cup {idx} ELSE failed
    /\ outages' = IF caller = "all" /\ net = "up" THEN outages + 1 ELSE outages
    /\ UNCHANGED <<url_vars, caller, net, clock, site_url, max_articles, domain, served, soup,
                   articles, called_at, tiers_run, runs, prev, sites, idx, results,
                   attempted>>

\* session.get raises, raise_for_status raises on an error status, or
\* BeautifulSoup raises: the except clause logs, articles is still []
FetchFails(kind) ==
    /\ pc = "fetch"
    /\ net = "down" \/ caller = "site" \/ outages < MaxOutages
    /\ error' = kind
    /\ pc' = "sleep"
    /\ failed' = IF caller = "all" THEN failed \cup {idx} ELSE failed
    /\ outages' = IF caller = "all" /\ net = "up" THEN outages + 1 ELSE outages
    /\ UNCHANGED <<url_vars, caller, net, clock, site_url, max_articles, domain, served, soup,
                   articles, called_at, tiers_run, runs, prev, sites, idx, results,
                   attempted>>

\* lines 52-55: the page is fetched and parsed
FetchOk ==
    /\ pc = "fetch"
    /\ net = "up"
    /\ soup' = served
    /\ pc' = "tier1"
    /\ UNCHANGED <<url_vars, caller, net, clock, site_url, max_articles, domain, served,
                   articles, called_at, tiers_run, error, runs, prev, loop_vars>>

\* line 60: if not articles
after_tier1(found) == IF found = <<>> THEN "tier2" ELSE "sleep"

\* the gate of strategy 3 taken to be strategy 2's own threshold
after_tier2_Mut(found) == IF Len(found) < GoodEnough THEN "tier3" ELSE "sleep"

\* line 64: if not articles
after_tier2(found) == IF found = <<>> THEN "tier3" ELSE "sleep"

\* line 58: Strategy 1
Tier1 ==
    /\ pc = "tier1"
    /\ articles' = _try_article_selectors(Pages[soup], site_url, domain, max_articles, clock)
    /\ tiers_run' = Append(tiers_run, 1)
    /\ pc' = after_tier1(articles')
    /\ UNCHANGED <<url_vars, caller, net, clock, site_url, max_articles, domain, served, soup,
                   called_at, error, runs, prev, loop_vars>>

\* line 62: Strategy 2
Tier2 ==
    /\ pc = "tier2"
    /\ articles' = _try_headline_selectors(Pages[soup], site_url, domain, max_articles, clock)
    /\ tiers_run' = Append(tiers_run, 2)
    /\ pc' = after_tier2(articles')
    /\ UNCHANGED <<url_vars, caller, net, clock, site_url, max_articles, domain, served, soup,
                   called_at, error, runs, prev, loop_vars>>

\* line 66: Strategy 3
Tier3 ==
    /\ pc = "tier3"
    /\ articles' = _try_generic_link_patterns(Pages[soup], site_url, domain, max_articles, clock)
    /\ tiers_run' = Append(tiers_run, 3)
    /\ pc' = "sleep"
    /\ UNCHANGED <<url_vars, caller, net, clock, site_url, max_articles, domain, served, soup,
                   called_at, error, runs, prev, loop_vars>>

\* a strategy raises while it runs (urljoin, for one, raises ValueError on an
\* href such as "//[x"): its result is never assigned, the except clause logs
TierRaises ==
    /\ pc \in {"tier1", "tier2", "tier3"}
    /\ caller = "site" \/ outages < MaxOutages
    /\ tiers_run' = Append(tiers_run, CASE pc = "tier1" -> 1 [] pc = "tier2" -> 2 [] OTHER -> 3)
    /\ error' = "ExtractionError"
    /\ pc' = "sleep"
    /\ failed' = IF caller = "all" THEN failed \cup {idx} ELSE failed
    /\ outages' = IF caller = "all" THEN outages + 1 ELSE outages
    /\ UNCHANGED <<url_vars, caller, net, clock, site_url, max_articles, domain, served, soup,
                   articles, called_at, runs, prev, sites, idx, results, attempted>>

\* where scrape_site_adaptive returns to
return_to(who) == IF who = "all" THEN "store" ELSE "returned"

\* lines 73-74: time.sleep(self.delay); return articles
Sleep ==
    /\ pc = "sleep"
    /\ clock' = clock + Delay
    /\ pc' = return_to(caller)
    /\ UNCHANGED <<url_vars, caller, net, site_vars, runs, prev, loop_vars>>

\* lines 292-326 of scrape_all_sites: the site list is chosen, results = {}
CallAll(site_type, max) ==
    /\ pc = "idle"
    /\ caller' = "all"
    /\ max_articles' = max
    /\ sites' = IF site_type = "tech" THEN tech_sites ELSE security_sites
    /\ idx' = 1
    /\ results' = <<>>
    /\ attempted' = <<>>
    /\ pc' = "next_site"
    /\ UNCHANGED <<url_vars, net, clock, site_url, domain, served, soup, articles, called_at,
                   tiers_run, error, runs, prev, failed, outages>>

\* line 324: raise ValueError for any other site_type
CallAllUnknown ==
    /\ pc = "idle"
    /\ caller' = "all"
    /\ error' = "ValueError"
    /\ pc' = "raised"
    /\ UNCHANGED <<url_vars, net, clock, site_url, max_articles, domain, served, soup, articles,
                   called_at, tiers_run, runs, prev, loop_vars>>

\* lines 328-330: for site in sites: scrape_site_adaptive(site, max_articles_per_site)
NextSite ==
    /\ pc = "next_site"
    /\ Enter(sites[idx], max_articles, WebPage(idx))
    /\ attempted' = Append(attempted, sites[idx])
    /\ UNCHANGED <<url_vars, caller, net, clock, runs, prev, sites, idx, results, failed, outages>>

\* results[key] = value on a dict
dict_set(d, key, value) ==
    [k \in DOMAIN d \cup {key} |-> IF k = key THEN value ELSE d[k]]

\* where the loop over the sites goes after the site at position k
loop_next(k, n) == IF k < n THEN "next_site" ELSE "all_done"

\* lines 331-335: results[domain] = articles and the pause between two sites
Store ==
    /\ pc = "store"
    /\ results' = dict_set(results, domain_of(sites[idx]), articles)
    /\ clock' = clock + Delay
    /\ idx' = idx + 1
    /\ pc' = loop_next(idx, Len(sites))
    /\ UNCHANGED <<url_vars, caller, net, site_vars, runs, prev, sites, attempted, failed, outages>>

\* a caller asks _is_valid_article_url(u)
CheckValid(u) ==
    /\ pc = "idle"
    /\ asked' = "valid"
    /\ asked_url' = u
    /\ verdict' = _is_valid_article_url(u)
    /\ pc' = "classified"
    /\ UNCHANGED <<caller, net, clock, site_vars, runs, prev, loop_vars>>

\* a caller asks _looks_like_article_url(u)
CheckLooks(u) ==
    /\ pc = "idle"
    /\ asked' = "looks"
    /\ asked_url' = u
    /\ verdict' = _looks_like_article_url(u)
    /\ pc' = "classified"
    /\ UNCHANGED <<caller, net, clock, site_vars, runs, prev, loop_vars>>

Next ==
    \/ \E url \in TestUrls, max \in 0..MaxArticles, page \in 1..Len(Pages) :
           CallSite(url, max, page)
    \/ CallAgain
    \/ \E kind \in {"ConnectionError", "HTTPError", "ParseError"} : FetchFails(kind)
    \/ FetchOk
    \/ Tier1
    \/ Tier2
    \/ Tier3
    \/ TierRaises
    \/ Sleep
    \/ \E site_type \in {"tech", "security"}, max \in 0..MaxArticles :
           CallAll(site_type, max)
    \/ CallAllUnknown
    \/ NextSite
    \/ Store
    \/ \E u \in ProbeUrls : CheckValid(u)
    \/ \E u \in ProbeUrls : CheckLooks(u)

Spec == Init /\ [][Next]_vars

(***************************************************************************)
(* Properties                                                              *)
(***************************************************************************)

Range(seq) == {seq[i] : i \in 1..Len(seq)}

\* scrape_site_adaptive has left its try block
Finished == pc \in {"sleep", "returned", "store"}

\* C1: the strategies run in the order 1, 2, 3; strategy 2 is invoked only
\* when strategy 1 returned no record, strategy 3 only when strategies 1 and 2
\* both returned none; the list a call returns is the output of the first
\* strategy (in that order) that produced a record, and of that one alone.
C1_TierOrder ==
    soup # 0 =>
        LET page == Pages[soup]
            T1 == _try_article_selectors(page, site_url, domain, max_articles, called_at)
            T2 == _try_headline_selectors(page, site_url, domain, max_articles, called_at)
            T3 == _try_generic_link_patterns(page, site_url, domain, max_articles, called_at)
        IN  /\ tiers_run \in {<<>>, <<1>>, <<1, 2>>, <<1, 2, 3>>}
            /\ 2 \in Range(tiers_run) => T1 = <<>>
            /\ 3 \in Range(tiers_run) => T1 = <<>> /\ T2 = <<>>
            /\ (Finished /\ error = "") =>
                   \/ T1 # <<>> /\ tiers_run = <<1>> /\ articles = T1
                   \/ T1 = <<>> /\ T2 # <<>> /\ tiers_run = <<1, 2>> /\ articles = T2
                   \/ T1 = <<>> /\ T2 = <<>> /\ tiers_run = <<1, 2, 3>> /\ articles = T3

\* a call returns the records of strategy 2, fewer than three of them, and
\* strategy 3 was not invoked
C1_Witness ==
    /\ pc = "returned"
    /\ error = ""
    /\ tiers_run = <<1, 2>>
    /\ articles # <<>>
    /\ Len(articles) < GoodEnough

\* C2: whatever the page and max_articles >= 0, the list scrape_site_adaptive
\* returns holds at most max_articles records.
C2_ResultCapped ==
    Finished => Len(articles) <= max_articles

\* C3: every record emitted by any strategy has a non-empty title and a
\* non-empty url; a candidate whose stripped text or whose href is empty is
\* dropped.
C3_TitleAndUrlNonEmpty ==
    /\ \A a \in Range(articles) : a.title # <<>> /\ a.url # <<>>
    /\ \A d \in DOMAIN results : \A a \in Range(results[d]) : a.title # <<>> /\ a.url # <<>>

\* a call returns records from a page that holds a link without text or
\* without a non-empty href
C3_Witness ==
    /\ pc = "returned"
    /\ articles # <<>>
    /\ \E i \in 1..Len(Pages[soup]) :
           /\ Pages[soup][i].tag = "a"
           /\ get_text(Pages[soup], i) = <<>> \/ get_href(Pages[soup], i) = <<>>

\* C4: in every strategy the url of each emitted record passes
\* _is_valid_article_url, and the records of strategy 3 also pass
\* _looks_like_article_url.
C4_UrlsValid ==
    (Finished /\ error = "") =>
        /\ \A a \in Range(articles) : _is_valid_article_url(a.url)
        /\ tiers_run = <<1, 2, 3>> =>
               \A a \in Range(articles) : _looks_like_article_url(a.url)

\* C5: whatever strategy produced a record, a source title longer than 100
\* characters is stored as its first 100 characters followed by '...', so no
\* stored title is longer than 100 characters plus the marker.
C5_TitleTruncated ==
    \A a \in Range(articles) :
        /\ Len(a.title) <= TitleLimit + Len(Ellipsis)
        /\ Len(a.title) > TitleLimit => EndsWith(a.title, Ellipsis)

\* C6: the summary of every record of strategy 1 is either empty or derived
\* from a text longer than 20 characters; a candidate of 20 characters or fewer
\* is never used.
C6_SummarySubstantial ==
    (Finished /\ error = "" /\ tiers_run = <<1>>) =>
        \A a \in Range(articles) : a.summary = <<>> \/ Len(a.summary) > MinSummaryLen

\* C7: for every container that holds, under one of the title selectors, a
\* link with non-empty stripped text and non-empty href,
\* _extract_article_from_element returns a record, also when a selector of
\* higher priority matches a link without text or href.
C7_TitleFoundWhenPresent ==
    (soup # 0 /\ tiers_run # <<>>) =>
        \A k \in 1..Len(article_selectors) :
            \A e \in Range(select(Pages[soup], 0, article_selectors[k])) :
                (\E j \in 1..Len(title_selectors) :
                    \E l \in Range(select(Pages[soup], e, title_selectors[j])) :
                        get_text(Pages[soup], l) # <<>> /\ get_href(Pages[soup], l) # <<>>)
                => _extract_article_from_element(Pages[soup], e, site_url, domain,
                                                 called_at) # <<>>

Undated(a) ==
    [title |-> a.title, url |-> a.url, summary |-> a.summary,
     source |-> a.source, author |-> a.author]

\* the second of two calls on the same page url, max_articles and parsed
\* document has returned, neither call having caught an exception
SecondRunDone ==
    /\ pc = "returned"
    /\ prev # <<>>
    /\ error = ""
    /\ soup # 0
    /\ prev[1].soup = soup
    /\ prev[1].error = ""

IsAbsolute(url) == UrlScheme(url) # <<>>

\* C10: the url of every emitted record is absolute: a relative href is
\* resolved against the page url and never stored as it is.
C10_UrlAbsolute ==
    \A a \in Range(articles) : IsAbsolute(a.url)

\* the answer of a direct call of one of the two classifiers
Answered(which) == pc = "classified" /\ asked = which

\* the texts C11 names: rejected wherever they occur, and the four extensions
RejectedAnywhere ==
    { <<"#">>,
      <<"j","a","v","a","s","c","r","i","p","t",":">>,
      <<"m","a","i","l","t","o",":">>,
      <<"/","t","a","g","/">>,
      <<"/","c","a","t","e","g","o","r","y","/">>,
      <<"/","a","u","t","h","o","r","/">>,
      <<"/","s","e","a","r","c","h">>,
      <<"/","l","o","g","i","n">>,
      <<"/","r","e","g","i","s","t","e","r">> }

RejectedExtensions ==
    { <<".","p","d","f">>, <<".","j","p","g">>, <<".","p","n","g">>, <<".","g","i","f">> }

\* s ends with p, one final newline set aside (the $ of re.search)
EndsIn(s, p) ==
    \/ Len(s) >= Len(p) /\ SubSeq(s, Len(s) - Len(p) + 1, Len(s)) = p
    \/ /\ Len(s) > Len(p)
       /\ s[Len(s)] = "\n"
       /\ SubSeq(s, Len(s) - Len(p), Len(s) - 1) = p

\* C11 as claimed: _is_valid_article_url is false for the empty url and for
\* every url that contains, in any case, one of the rejected texts or one of
\* the extensions .pdf .jpg .png .gif, and true for every other url.
C11_ValidUnlessContains ==
    Answered("valid") =>
        verdict = ( /\ asked_url # <<>>
                    /\ \A p \in RejectedAnywhere \cup RejectedExtensions :
                           ~Contains(Lower(asked_url), p) )

\* C11: _is_valid_article_url is false for the empty url, for every url that
\* contains, in any case, one of the rejected texts, and for every url that
\* ends, in any case, with one of the extensions .pdf .jpg .png .gif (one final
\* newline set aside); it is true for every other url, so an extension in the
\* middle of the url does not reject it.
C11_ValidUnlessContainsOrEndsIn ==
    Answered("valid") =>
        verdict = ( /\ asked_url # <<>>
                    /\ \A p \in RejectedAnywhere : ~Contains(Lower(asked_url), p)
                    /\ \A p \in RejectedExtensions : ~EndsIn(Lower(asked_url), p) )

\* a url with an extension in its middle was accepted
C11_Witness ==
    /\ Answered("valid")
    /\ verdict
    /\ \E p \in RejectedExtensions : Contains(Lower(asked_url), p)

\* the texts C12 names as accepted wherever they occur
ArticlePaths ==
    { <<"/","a","r","t","i","c","l","e","/">>,
      <<"/","p","o","s","t","/">>,
      <<"/","s","t","o","r","y","/">>,
      <<"/","n","e","w","s","/">>,
      <<"/","b","l","o","g","/">> }

\* C12: _looks_like_article_url is true exactly when the url is non-empty and,
\* in any case, holds a segment of exactly four digits between slashes, or one
\* of /article/ /post/ /story/ /news/ /blog/, or ends in .html, or ends in a
\* dash followed by digits; .html in the middle of the url does not count.
C12_LooksLikeExactly ==
    Answered("looks") =>
        LET u == Lower(asked_url)
            n == IF Len(u) > 0 /\ u[Len(u)] = "\n" THEN Len(u) - 1 ELSE Len(u)
        IN  verdict =
              ( /\ asked_url # <<>>
                /\ \/ \E i \in 1..Len(u) :
                         /\ i + 5 <= Len(u)
                         /\ u[i] = "/" /\ u[i + 5] = "/"
                         /\ {u[i + 1], u[i + 2], u[i + 3], u[i + 4]} \subseteq Digits
                   \/ \E p \in ArticlePaths : Contains(u, p)
                   \/ EndsIn(u, <<".","h","t","m","l">>)
                   \/ \E m \in {Len(u), n} : \E i \in 1..(m - 1) :
                         u[i] = "-" /\ \A k \in (i + 1)..m : u[k] \in Digits )

\* strategy 1 has returned and nothing has run after it
TierOneReturned == tiers_run = <<1>> /\ error = ""

\* the elements the k-th container selector matches on the page served
ContainerMatches(k) == select(Pages[soup], 0, article_selectors[k])

\* the records of the sequence of optional records rs, in order
RECURSIVE Present(_)
Present(rs) ==
    IF rs = <<>> THEN <<>> ELSE rs[1] \o Present(Tail(rs))

\* container extraction over the first max_articles matches of the k-th selector
ContainerYield(k) ==
    LET elements == ContainerMatches(k)
        n == IF Len(elements) < max_articles THEN Len(elements) ELSE max_articles
    IN  Present([i \in 1..n |->
            _extract_article_from_element(Pages[soup], elements[i], site_url, domain,
                                          called_at)])

\* the selectors that match at least 3 elements and yield at least one record
Productive ==
    { k \in 1..Len(article_selectors) :
        Len(ContainerMatches(k)) >= 3 /\ ContainerYield(k) # <<>> }

\* C13: the result of _try_article_selectors is the yield, in document order,
\* of the first max_articles matches of the first selector that matches at
\* least 3 elements and yields a record, and of that selector alone; it is
\* empty only if every selector matches fewer than 3 elements or yields none.
C13_TierOneStopRule ==
    TierOneReturned =>
        IF Productive = {} THEN articles = <<>>
        ELSE \E k \in Productive :
                /\ \A j \in Productive : k <= j
                /\ articles = ContainerYield(k)

\* the result came from a later selector after an earlier one matched at
\* least 3 elements and yielded nothing, and it left out a later match
C13_Witness ==
    /\ TierOneReturned
    /\ articles # <<>>
    /\ \E k \in Productive :
          /\ articles = ContainerYield(k)
          /\ Len(ContainerMatches(k)) > Len(articles)
          /\ \E j \in 1..(k - 1) : Len(ContainerMatches(j)) >= 3

\* strategy 2 has returned and nothing has run after it
TierTwoReturned == tiers_run = <<1, 2>> /\ error = ""

\* the links the k-th headline selector matches on the page served
HeadlineMatches(k) == select(Pages[soup], 0, headline_selectors[k])

\* the accepted records of the first max_articles links of the k-th selector
HeadlineYield(k) ==
    LET links == HeadlineMatches(k)
        n == IF Len(links) < max_articles THEN Len(links) ELSE max_articles
    IN  Present([i \in 1..n |->
            LET r == _create_article_from_link(Pages[soup], links[i], site_url, domain,
                                               called_at)
            IN  IF r # <<>> /\ _is_valid_article_url(r[1].url) THEN r ELSE <<>>])

\* the selectors that match at least 3 links and contribute at least 3 records
Sufficient ==
    { k \in 1..Len(headline_selectors) :
        Len(HeadlineMatches(k)) >= 3 /\ Len(HeadlineYield(k)) >= 3 }

\* C14: _try_headline_selectors stops at the first selector that has itself
\* contributed at least 3 accepted records, and the records of earlier
\* selectors are not carried along: the result is the accepted records of a
\* single selector.
C14_TierTwoPerSelector ==
    TierTwoReturned =>
        IF Sufficient # {}
        THEN \E k \in Sufficient :
                /\ \A j \in Sufficient : k <= j
                /\ articles = HeadlineYield(k)
        ELSE \/ articles = <<>>
             \/ \E k \in 1..Len(headline_selectors) :
                   Len(HeadlineMatches(k)) >= 3 /\ articles = HeadlineYield(k)

\* strategy 3 has returned
TierThreeReturned == tiers_run = <<1, 2, 3>> /\ error = ""

\* the words C15 names
NavigationWords ==
    { <<"h","o","m","e">>, <<"a","b","o","u","t">>, <<"c","o","n","t","a","c","t">>, <<"s","u","b","s","c","r","i","b","e">>, <<"l","o","g","i","n">>, <<"m","e","n","u">> }

\* the link passes the filter of C15
Eligible(i) ==
    LET text == get_text(Pages[soup], i)
        href == get_href(Pages[soup], i)
    IN  /\ Len(text) >= 10
        /\ \A w \in NavigationWords : ~Contains(Lower(text), w)
        /\ _looks_like_article_url(href)
        /\ _is_valid_article_url(href)

\* the first max_articles eligible hyperlinks of the page, in document order
FirstEligible ==
    LET kept == SelectSeq(find_all_links(Pages[soup]), Eligible)
    IN  IF Len(kept) < max_articles THEN kept ELSE SubSeq(kept, 1, max_articles)

\* C15: _try_generic_link_patterns returns, in document order, one record for
\* each of the first max_articles hyperlinks whose stripped text has at least
\* 10 characters and no navigation word and whose href passes both url tests:
\* the link text as title (under the 100-character rule of titles), the href
\* resolved against the page url, an empty summary and no author.
C15_TierThreeIsFilter ==
    TierThreeReturned =>
        articles = [j \in 1..Len(FirstEligible) |->
                       Article(clip_title(get_text(Pages[soup], FirstEligible[j])),
                               urljoin(site_url, get_href(Pages[soup], FirstEligible[j])),
                               <<>>, strftime(called_at), domain, <<>>)]

\* the text of the first author-like element of the container that has text
RECURSIVE FirstAuthorText(_, _, _)
FirstAuthorText(page, element, k) ==
    IF k > Len(author_selectors) THEN <<>>
    ELSE LET e == select_one(page, element, author_selectors[k])
         IN  IF e # <<>> /\ get_text(page, e[1]) # <<>> THEN <<get_text(page, e[1])>>
             ELSE FirstAuthorText(page, element, k + 1)

\* C16: the author of every record of strategy 1 is the stripped text of the
\* first author-like element, in selector order, whose text is not empty, an
\* element without text being passed over; it is None when there is no such
\* element, never the empty string.
C16_AuthorFirstNonEmpty ==
    TierOneReturned /\ Productive # {} =>
        LET k == CHOOSE c \in Productive : \A j \in Productive : c <= j
            elements == ContainerMatches(k)
            n == IF Len(elements) < max_articles THEN Len(elements) ELSE max_articles
        IN  articles = Present([i \in 1..n |->
                LET r == _extract_article_from_element(Pages[soup], elements[i],
                                                       site_url, domain, called_at)
                IN  IF r = <<>> THEN <<>>
                    ELSE << [r[1] EXCEPT !.author =
                                FirstAuthorText(Pages[soup], elements[i], 1)] >>])

\* the host name with a leading www. removed
SansLeadingWww(host) ==
    IF Len(host) >= 4 /\ SubSeq(host, 1, 4) = <<"w","w","w",".">>
    THEN SubSeq(host, 5, Len(host)) ELSE host

\* C17: the source of a page is its host name with only a leading www.
\* removed, www. elsewhere in the name being kept, and every record returned
\* for the page carries that source.
C17_SourceIsHostSansLeadingWww ==
    site_url # <<>> =>
        /\ domain = SansLeadingWww(UrlNetloc(site_url))
        /\ \A a \in Range(articles) : a.source = domain

====
